---- MODULE Spec2Model ----
(***************************************************************************)
(* Coordinate-descent solver of src/l3solver.cpp (l3solver_internal and    *)
(* the routines it calls), modelled in exact rational arithmetic.          *)
(*                                                                         *)
(* A double is modelled as an extended rational <<num, den>> in lowest     *)
(* terms with den > 0; +Inf is <<1, 0>> and -Inf is <<-1, 0>>.  Rounding   *)
(* of the floating-point operations is not modelled.                       *)
(*                                                                         *)
(* Matrices are sequences of rows, indexed from 1 (the code indexes from   *)
(* 0); the driver's iteration counter i keeps the code's values 0, 1, ...  *)
(***************************************************************************)
EXTENDS Integers, Sequences, FiniteSets, TLC

(***************************************************************************)
(* Extended rational arithmetic (the double operations the code uses).     *)
(***************************************************************************)
Abs(x) == IF x < 0 THEN -x ELSE x

Sign(x) == IF x < 0 THEN -1 ELSE IF x > 0 THEN 1 ELSE 0

RECURSIVE GCD(_, _)
GCD(a, b) == IF b = 0 THEN a ELSE GCD(b, a % b)

Norm(num, den) ==
    IF num = 0 THEN <<0, 1>>
    ELSE LET g == GCD(Abs(num), den) IN <<num \div g, den \div g>>

R(x) == <<x, 1>>

Zero == R(0)

One == R(1)

Half == <<1, 2>>

Inf == <<1, 0>>

IsInf(a) == a[2] = 0

Neg(a) == <<-a[1], a[2]>>

Add(a, b) ==
    IF a[2] = 0 THEN a
    ELSE IF b[2] = 0 THEN b
    ELSE LET g == GCD(a[2], b[2])
         IN  Norm(a[1] * (b[2] \div g) + b[1] * (a[2] \div g), (a[2] \div g) * b[2])

Sub(a, b) == Add(a, Neg(b))

Mul(a, b) ==
    IF a[2] = 0 \/ b[2] = 0 THEN <<Sign(a[1]) * Sign(b[1]), 0>>
    ELSE IF a[1] = 0 \/ b[1] = 0 THEN Zero
    ELSE LET g1 == GCD(Abs(a[1]), b[2])
             g2 == GCD(Abs(b[1]), a[2])
         IN  <<(a[1] \div g1) * (b[1] \div g2), (a[2] \div g2) * (b[2] \div g1)>>

\* a / b for a finite nonzero b
Div(a, b) == Mul(a, IF b[1] > 0 THEN <<b[2], b[1]>> ELSE <<-b[2], -b[1]>>)

\* a < b
Less(a, b) == a[1] * b[2] < b[1] * a[2]

Leq(a, b) == ~Less(b, a)

\* std::min(a, b) and std::max(a, b)
Min(a, b) == IF Less(b, a) THEN b ELSE a

Max(a, b) == IF Less(a, b) THEN b ELSE a

RECURSIVE SumFrom(_, _)
SumFrom(s, j) == IF j > Len(s) THEN Zero ELSE Add(s[j], SumFrom(s, j + 1))

\* sum of the entries of a vector
SumSeq(s) == SumFrom(s, 1)

\* a function with domain 1..m as a tuple
Tup(f) == f \o <<>>

Dot(a, b) == SumSeq([j \in 1..Len(a) |-> Mul(a[j], b[j])])

SquaredNorm(v) == Dot(v, v)

VecAdd(a, b) == Tup([j \in 1..Len(a) |-> Add(a[j], b[j])])

VecSub(a, b) == Tup([j \in 1..Len(a) |-> Sub(a[j], b[j])])

VecScale(c, v) == Tup([j \in 1..Len(v) |-> Mul(c, v[j])])

ZeroVec(m) == Tup([j \in 1..m |-> Zero])

\* sum of the entries of a matrix
MatSum(M) == SumSeq([l \in 1..Len(M) |-> SumSeq(M[l])])

\* cwiseProduct of two matrices of the same shape
CwiseProduct(M, N) ==
    Tup([l \in 1..Len(M) |-> Tup([i \in 1..Len(M[l]) |-> Mul(M[l][i], N[l][i])])])

\* (M .* N).colwise().sum() for matrices with m columns
ColSums(M, N, m) == Tup([i \in 1..m |-> SumSeq([l \in 1..Len(M) |-> Mul(M[l][i], N[l][i])])])

\* X^T * w for X [n x d] and w [n]
TransposeTimes(X, w, d) ==
    Tup([j \in 1..d |-> SumSeq([i \in 1..Len(X) |-> Mul(X[i][j], w[i])])])

(***************************************************************************)
(* The routines of the solver as functions of the inputs `in` (a record    *)
(* with fields X, A, b, U, V, S, T, Tau, max_iter, tol, verbose) and of    *)
(* the primal-dual state `s` (a record with fields xi, Lambda, Gamma,      *)
(* Omega, beta).                                                           *)
(***************************************************************************)
Rows(M) == Len(M)

\* X.cols(); every X of the model has at least one row
Cols(X) == Len(X[1])

precompute_r(X) == Tup([i \in 1..Rows(X) |-> SquaredNorm(X[i])])

precompute_p(A) ==
    IF Rows(A) < 1 THEN <<>> ELSE Tup([k \in 1..Rows(A) |-> SquaredNorm(A[k])])

get_primal(in, xi, Lambda, Gamma) ==
    LET n == Rows(in.X)
        d == Cols(in.X)
        beta0 == IF Rows(in.A) > 0 THEN TransposeTimes(in.A, xi, d) ELSE ZeroVec(d)
        LH1 == IF Rows(in.U) > 0 THEN ColSums(in.U, Lambda, n) ELSE ZeroVec(n)
        LHterm == IF Rows(in.S) > 0 THEN VecAdd(LH1, ColSums(in.S, Gamma, n)) ELSE LH1
    IN  VecSub(beta0, TransposeTimes(in.X, LHterm, d))

\* the initial Gamma(h, i): (0.5 * Tau).cwiseMin(1.0)
InitGamma(tau_hi) == Min(Mul(Half, tau_hi), One)

init_params(in) ==
    LET n == Rows(in.X)
        xi0 == Tup([k \in 1..Rows(in.A) |-> One])
        Lambda0 == Tup([l \in 1..Rows(in.U) |-> Tup([i \in 1..n |-> Half])])
        Gamma0 == Tup([h \in 1..Rows(in.S) |-> Tup([i \in 1..n |-> InitGamma(in.Tau[h][i])])])
        Omega0 == Tup([h \in 1..Rows(in.S) |-> Tup([i \in 1..n |-> Zero])])
    IN  [xi |-> xi0, Lambda |-> Lambda0, Gamma |-> Gamma0, Omega |-> Omega0,
         beta |-> get_primal(in, xi0, Lambda0, Gamma0)]

\* faulty variant of XiEps: the step has the wrong sign (ascent instead of descent)
XiEps_WrongSign(in, p, s, k, b_k) ==
    LET e0 == Div(Add(Dot(in.A[k], s.beta), b_k), p[k])
    IN  Max(e0, Neg(s.xi[k]))

\* update_xi_beta, one k: the clipped step; b_k is the value read as b[k]
XiEps(in, p, s, k, b_k) ==
    LET e0 == Neg(Div(Add(Dot(in.A[k], s.beta), b_k), p[k]))
    IN  Max(e0, Neg(s.xi[k]))

\* update_xi_beta, one k: xi[k] += eps; beta += eps * A.row(k)
XiApply(in, s, k, e) ==
    [s EXCEPT !.xi[k] = Add(@, e), !.beta = VecAdd(@, VecScale(e, in.A[k]))]

XiStep(in, p, s, k, b_k) == XiApply(in, s, k, XiEps(in, p, s, k, b_k))

\* update_Lambda_beta, one (l, i): the clipped step
LambdaEps(in, r, s, l, i) ==
    LET u_li == in.U[l][i]
        e0 == Div(Div(Div(Add(in.V[l][i], Mul(u_li, Dot(in.X[i], s.beta))), r[i]), u_li), u_li)
        lambda_li == s.Lambda[l][i]
        e1 == Min(e0, Sub(One, lambda_li))
    IN  Max(e1, Neg(lambda_li))

\* faulty variant of LambdaApply: beta += eps * u_li * X.row(i)
LambdaApply_PlusBeta(in, s, l, i, e) ==
    [s EXCEPT !.Lambda[l][i] = Add(@, e),
              !.beta = VecAdd(@, VecScale(Mul(e, in.U[l][i]), in.X[i]))]

\* update_Lambda_beta, one (l, i): Lambda(l, i) += eps; beta -= eps * u_li * X.row(i)
LambdaApply(in, s, l, i, e) ==
    [s EXCEPT !.Lambda[l][i] = Add(@, e),
              !.beta = VecSub(@, VecScale(Mul(e, in.U[l][i]), in.X[i]))]

LambdaStep(in, r, s, l, i) == LambdaApply(in, s, l, i, LambdaEps(in, r, s, l, i))

\* faulty variant of GammaEps: the step is not clipped at tau_hi - gamma_hi
GammaEps_NoUpperClip(in, r, s, h, i) ==
    LET s_hi == in.S[h][i]
        gamma_hi == s.Gamma[h][i]
        e0 == Sub(Add(Add(in.T[h][i], s.Omega[h][i]), Mul(s_hi, Dot(in.X[i], s.beta))), gamma_hi)
        e1 == Div(e0, Add(Mul(Mul(s_hi, s_hi), r[i]), One))
    IN  Max(e1, Neg(gamma_hi))

\* update_Gamma_Omega_beta, one (h, i): the clipped step
GammaEps(in, r, s, h, i) ==
    LET tau_hi == in.Tau[h][i]
        s_hi == in.S[h][i]
        gamma_hi == s.Gamma[h][i]
        e0 == Sub(Add(Add(in.T[h][i], s.Omega[h][i]), Mul(s_hi, Dot(in.X[i], s.beta))), gamma_hi)
        e1 == Div(e0, Add(Mul(Mul(s_hi, s_hi), r[i]), One))
        e2 == Min(e1, Sub(tau_hi, gamma_hi))
    IN  Max(e2, Neg(gamma_hi))

\* faulty variant of NewOmega: the step is left out, max(0, gamma_hi - tau_hi)
NewOmega_WithoutEps(gamma_hi, e, tau_hi) == Max(Zero, Sub(gamma_hi, tau_hi))

\* faulty variant of NewOmega: the step is added to the updated Gamma(h, i),
\* max(0, Gamma(h, i) + eps - tau_hi)
NewOmega_EpsTwice(gamma_hi, e, tau_hi) == Max(Zero, Sub(Add(Add(gamma_hi, e), e), tau_hi))

\* the new Omega(h, i): std::max(0.0, gamma_hi + eps - tau_hi), gamma_hi being
\* the value of Gamma(h, i) read before the step
NewOmega(gamma_hi, e, tau_hi) == Max(Zero, Sub(Add(gamma_hi, e), tau_hi))

\* faulty variant of GammaApply: beta -= eps * X.row(i), the factor s_hi left out
GammaApply_WithoutS(in, s, h, i, e) ==
    [s EXCEPT !.Gamma[h][i] = Add(@, e),
              !.beta = VecSub(@, VecScale(e, in.X[i])),
              !.Omega[h][i] = Max(Zero, Sub(Add(s.Gamma[h][i], e), in.Tau[h][i]))]

\* update_Gamma_Omega_beta, one (h, i): Gamma(h, i) += eps;
\* beta -= eps * s_hi * X.row(i); Omega(h, i) = ...
GammaApply(in, s, h, i, e) ==
    [s EXCEPT !.Gamma[h][i] = Add(@, e),
              !.beta = VecSub(@, VecScale(Mul(e, in.S[h][i]), in.X[i])),
              !.Omega[h][i] = NewOmega(s.Gamma[h][i], e, in.Tau[h][i])]

GammaStep(in, r, s, h, i) == GammaApply(in, s, h, i, GammaEps(in, r, s, h, i))

\* Omega(h, i) * min(Tau(h, i), max_finite); max_finite exceeds every value of
\* the model, so a nonzero Omega times it is modelled as Inf
OmegaTimesClippedTau(omega_hi, tau_hi) ==
    IF IsInf(tau_hi) THEN (IF omega_hi = Zero THEN Zero ELSE Inf) ELSE Mul(omega_hi, tau_hi)

\* dual_objfn; b is the vector read as b[0..K-1]
dual_objfn(in, b, s) ==
    LET n == Rows(in.X)
        d == Cols(in.X)
        L == Rows(in.U)
        H == Rows(in.S)
        K == Rows(in.A)
        Atxi == IF K > 0 THEN TransposeTimes(in.A, s.xi, d) ELSE ZeroVec(d)
        U3L == IF L > 0 THEN TransposeTimes(in.X, ColSums(in.U, s.Lambda, n), d) ELSE ZeroVec(d)
        S3G == IF H > 0 THEN TransposeTimes(in.X, ColSums(in.S, s.Gamma, n), d) ELSE ZeroVec(d)
        Atxi_U3L == IF L > 0 THEN Dot(Atxi, U3L) ELSE Zero
        Atxi_S3G == IF H > 0 THEN Dot(Atxi, S3G) ELSE Zero
        objK == IF K > 0
                THEN Add(Sub(Sub(Mul(Half, SquaredNorm(Atxi)), Atxi_U3L), Atxi_S3G), Dot(s.xi, b))
                ELSE Zero
        U3L_S3G == IF H > 0 THEN Dot(U3L, S3G) ELSE Zero
        objL == IF L > 0
                THEN Sub(Add(Mul(Half, SquaredNorm(U3L)), U3L_S3G), MatSum(CwiseProduct(s.Lambda, in.V)))
                ELSE Zero
        OmegaPlusT == Tup([h \in 1..H |-> VecAdd(s.Omega[h], in.T[h])])
        OmegaTau == Tup([h \in 1..H |->
                        Tup([i \in 1..n |-> OmegaTimesClippedTau(s.Omega[h][i], in.Tau[h][i])])])
        objH == IF H > 0
                THEN Add(Sub(Add(Add(Mul(Half, MatSum(CwiseProduct(s.Omega, s.Omega))),
                                     Mul(Half, SquaredNorm(S3G))),
                                 Mul(Half, MatSum(CwiseProduct(s.Gamma, s.Gamma)))),
                             MatSum(CwiseProduct(s.Gamma, OmegaPlusT))),
                         MatSum(OmegaTau))
                ELSE Zero
    IN  Add(Add(objK, objL), objH)

\* (xi - old_xi).norm() and (beta - old_beta).norm() enter the model squared
SquaredDiff(v, old_v) == SquaredNorm(VecSub(v, old_v))

\* xi_diff < tol && beta_diff < tol, for tol >= 0, on the squared norms
Converged(xi_diff2, beta_diff2, tol) ==
    Less(xi_diff2, Mul(tol, tol)) /\ Less(beta_diff2, Mul(tol, tol))

\* the cadence of the progress report
ReportEvery == 10

\* verbose && (i % 10 == 0)
Reports(in, i) == in.verbose /\ i % ReportEvery = 0

RECURSIVE SweepXi(_, _, _, _)
SweepXi(in, p, s, k) ==
    IF k > Rows(in.A) THEN s ELSE SweepXi(in, p, XiStep(in, p, s, k, in.b[k]), k + 1)

RECURSIVE SweepLambda(_, _, _, _, _)
SweepLambda(in, r, s, l, i) ==
    IF l > Rows(in.U) THEN s
    ELSE IF i > Rows(in.X) THEN SweepLambda(in, r, s, l + 1, 1)
    ELSE SweepLambda(in, r, LambdaStep(in, r, s, l, i), l, i + 1)

RECURSIVE SweepGamma(_, _, _, _, _)
SweepGamma(in, r, s, h, i) ==
    IF h > Rows(in.S) THEN s
    ELSE IF i > Rows(in.X) THEN SweepGamma(in, r, s, h + 1, 1)
    ELSE SweepGamma(in, r, GammaStep(in, r, s, h, i), h, i + 1)

\* the three update routines, each a whole sweep (for inputs of matching shapes)
update_xi_beta(in, p, s) == SweepXi(in, p, s, 1)

update_Lambda_beta(in, r, s) == SweepLambda(in, r, s, 1, 1)

update_Gamma_Omega_beta(in, r, s) == SweepGamma(in, r, s, 1, 1)

\* one pass of the body of the main loop up to the convergence test
OneSweep(in, r, p, s) ==
    update_Gamma_Omega_beta(in, r, update_Lambda_beta(in, r, update_xi_beta(in, p, s)))

\* L3Result
Result(s, i, objs) ==
    [beta |-> s.beta, xi |-> s.xi, Lambda |-> s.Lambda, Gamma |-> s.Gamma,
     Omega |-> s.Omega, niter |-> i, dual_objfns |-> objs]

\* the main loop and the saving of the result; hist lists the primal-dual
\* state after initialization and after every sweep so far
RECURSIVE MainLoop(_, _, _, _, _, _, _)
MainLoop(in, r, p, s, i, objs, hist) ==
    IF i >= in.max_iter THEN [result |-> Result(s, i, objs), hist |-> hist]
    ELSE LET s1 == OneSweep(in, r, p, s)
             xi_diff2 == IF Rows(in.A) > 0 THEN SquaredDiff(s1.xi, s.xi) ELSE Zero
             beta_diff2 == SquaredDiff(s1.beta, s.beta)
             objs1 == IF Reports(in, i) THEN Append(objs, dual_objfn(in, in.b, s1)) ELSE objs
             hist1 == Append(hist, s1)
         IN  IF Converged(xi_diff2, beta_diff2, in.tol)
             THEN [result |-> Result(s1, i, objs1), hist |-> hist1]
             ELSE MainLoop(in, r, p, s1, i + 1, objs1, hist1)

\* the whole solve as a function of the inputs (for inputs of matching shapes)
l3solver_internal(in) ==
    LET s0 == init_params(in)
    IN  MainLoop(in, precompute_r(in.X), precompute_p(in.A), s0, 0, <<>>, <<s0>>)

(***************************************************************************)
(* The inputs of the model.                                                *)
(***************************************************************************)
\* largest max_iter of the general runs
MaxIter == 2

\* max_iter of the long runs, which reach a second sample of the dual objective
LongIter == 11

ToMat(M) == Tup([a \in 1..Len(M) |-> Tup([c \in 1..Len(M[a]) |-> R(M[a][c])])])

ToVec(v) == Tup([a \in 1..Len(v) |-> R(v[a])])

\* the first m columns of M
Trunc(M, m) == Tup([a \in 1..Len(M) |-> SubSeq(M[a], 1, m)])

XSet ==
    { ToMat(<< <<1, 1>> >>),
      ToMat(<< <<1, 0>>, <<0, 1>> >>),
      ToMat(<< <<1, 1>>, <<0, 1>> >>) }

\* A [K x d] with b; the last pair has a b shorter than A has rows
ABSet ==
    { [A |-> <<>>, b |-> <<>>],
      [A |-> ToMat(<< <<1, 0>> >>), b |-> ToVec(<<-1>>)],
      [A |-> ToMat(<< <<0, 1>>, <<1, 1>> >>), b |-> ToVec(<<1, -1>>)],
      [A |-> ToMat(<< <<1, 0>> >>), b |-> <<>>] }

\* U, V [L x 2], every entry of U nonzero; Inputs keeps the first n columns
UVSet ==
    { [U |-> <<>>, V |-> <<>>],
      [U |-> ToMat(<< <<1, -1>> >>), V |-> ToMat(<< <<0, 1>> >>)],
      [U |-> ToMat(<< <<1, 1>>, <<-1, 2>> >>), V |-> ToMat(<< <<1, 0>>, <<0, -1>> >>)] }

\* S, T, Tau [H x 2]; Tau may be Inf, and is negative in the last triple
STSet ==
    { [S |-> <<>>, T |-> <<>>, Tau |-> <<>>],
      [S |-> ToMat(<< <<1, 1>> >>), T |-> ToMat(<< <<1, 0>> >>), Tau |-> << <<One, Inf>> >>],
      [S |-> ToMat(<< <<0, 0>> >>), T |-> ToMat(<< <<1, 1>> >>), Tau |-> << <<Inf, Half>> >>],
      [S |-> ToMat(<< <<1, 0>>, <<1, -1>> >>), T |-> ToMat(<< <<0, 1>>, <<1, 1>> >>),
       Tau |-> << <<Inf, One>>, <<Half, R(2)>> >>],
      [S |-> ToMat(<< <<1, 1>> >>), T |-> ToMat(<< <<0, 1>> >>),
       Tau |-> << <<R(-1), R(-1)>> >>] }

TolSet == {Zero, Half, R(2)}

\* what a read of b past its end may yield
GarbageVals == {R(-2), R(1)}

\* b has one entry per row of A (the other shapes match by construction)
ShapesOK(in) == Len(in.b) = Rows(in.A)

IsUnit(row) == SquaredNorm(row) = One

\* the inputs that keep every value of a long run a multiple of 1/4
LongRunnable(in) ==
    /\ ShapesOK(in)
    /\ \A a \in 1..Rows(in.X) : IsUnit(in.X[a])
    /\ \A a \in 1..Rows(in.A) : IsUnit(in.A[a])
    /\ \A a \in 1..Rows(in.U) : \A c \in 1..Rows(in.X) : Abs(in.U[a][c][1]) = 1
    /\ \A a \in 1..Rows(in.S) : \A c \in 1..Rows(in.X) : in.S[a][c] = Zero

MaxIterSet(in) == (1..MaxIter) \cup (IF LongRunnable(in) THEN {LongIter} ELSE {})

Inputs ==
    { [X |-> X0, A |-> ab.A, b |-> ab.b,
       U |-> Trunc(uv.U, Rows(X0)), V |-> Trunc(uv.V, Rows(X0)),
       S |-> Trunc(st.S, Rows(X0)), T |-> Trunc(st.T, Rows(X0)),
       Tau |-> Trunc(st.Tau, Rows(X0))] :
         X0 \in XSet, ab \in ABSet, uv \in UVSet, st \in STSet }

(***************************************************************************)
(* The state of a call of l3solver_internal.                               *)
(*   inp                    the arguments                                  *)
(*   r, p                   the pre-computed vectors                       *)
(*   xi, Lambda, Gamma, Omega, beta   the primal-dual variables            *)
(*   i, old_xi, old_beta, xi_diff2, beta_diff2, dual_objfns                *)
(*                          the locals of the main loop (the two norms     *)
(*                          squared)                                       *)
(*   k, l, h, ix            the loop indices of the update routines (ix is *)
(*                          the sample index, the inner i of the code),    *)
(*                          0 outside their loops                          *)
(*   eps                    the step of the latest coordinate update       *)
(*   result                 the L3Result                                   *)
(*   pc                     the position in the code                       *)
(*   order, hist, met       history: the coordinates updated so far in     *)
(*                          the current sweep; the primal-dual state after *)
(*                          initialization and after every sweep; whether  *)
(*                          each sweep's differences were below tol        *)
(***************************************************************************)
VARIABLES inp, r, p, xi, Lambda, Gamma, Omega, beta, i, old_xi, old_beta,
          xi_diff2, beta_diff2, dual_objfns, k, l, h, ix, eps, result, pc,
          order, hist, met

vars == <<inp, r, p, xi, Lambda, Gamma, Omega, beta, i, old_xi, old_beta,
          xi_diff2, beta_diff2, dual_objfns, k, l, h, ix, eps, result, pc,
          order, hist, met>>

n == Rows(inp.X)

K == Rows(inp.A)

L == Rows(inp.U)

H == Rows(inp.S)

\* the primal-dual variables as one record
St == [xi |-> xi, Lambda |-> Lambda, Gamma |-> Gamma, Omega |-> Omega, beta |-> beta]

\* the default-constructed L3Result (niter not yet set)
NoResult ==
    [beta |-> <<>>, xi |-> <<>>, Lambda |-> <<>>, Gamma |-> <<>>, Omega |-> <<>>,
     niter |-> -1, dual_objfns |-> <<>>]

Init ==
    /\ \E in0 \in Inputs, tol0 \in TolSet, verbose0 \in BOOLEAN :
         \E max_iter0 \in MaxIterSet(in0) :
            inp = [X |-> in0.X, A |-> in0.A, b |-> in0.b, U |-> in0.U, V |-> in0.V,
                   S |-> in0.S, T |-> in0.T, Tau |-> in0.Tau,
                   max_iter |-> max_iter0, tol |-> tol0, verbose |-> verbose0]
    /\ r = <<>> /\ p = <<>>
    /\ xi = <<>> /\ Lambda = <<>> /\ Gamma = <<>> /\ Omega = <<>> /\ beta = <<>>
    /\ i = 0 /\ old_xi = <<>> /\ old_beta = <<>>
    /\ xi_diff2 = Zero /\ beta_diff2 = Zero /\ dual_objfns = <<>>
    /\ k = 0 /\ l = 0 /\ h = 0 /\ ix = 0 /\ eps = Zero
    /\ result = NoResult
    /\ pc = "start"
    /\ order = <<>> /\ hist = <<>> /\ met = <<>>

\* positions: where control goes when a sweep is entered, skipping empty loops
At(pc0, k0, l0, h0, ix0) == [pc |-> pc0, k |-> k0, l |-> l0, h |-> h0, ix |-> ix0]

EnterGamma == IF H > 0 THEN At("gamma", 0, 0, 1, 1) ELSE At("diff", 0, 0, 0, 0)

EnterLambda == IF L > 0 THEN At("lambda", 0, 1, 0, 1) ELSE EnterGamma

EnterXi == IF K > 0 THEN At("xi", 1, 0, 0, 0) ELSE EnterLambda

\* for (k = 0; k < K; k++)
AfterXi == IF k < K THEN At("xi", k + 1, 0, 0, 0) ELSE EnterLambda

\* faulty variant of AfterLambda: the sample index is the outer loop
AfterLambda_SampleOuter ==
    IF l < L THEN At("lambda", 0, l + 1, 0, ix)
    ELSE IF ix < n THEN At("lambda", 0, 1, 0, ix + 1)
    ELSE EnterGamma

\* for (l = 0; l < L; l++) for (i = 0; i < n; i++)
AfterLambda ==
    IF ix < n THEN At("lambda", 0, l, 0, ix + 1)
    ELSE IF l < L THEN At("lambda", 0, l + 1, 0, 1)
    ELSE EnterGamma

\* for (h = 0; h < H; h++) for (i = 0; i < n; i++)
AfterGamma ==
    IF ix < n THEN At("gamma", 0, 0, h, ix + 1)
    ELSE IF h < H THEN At("gamma", 0, 0, h + 1, 1)
    ELSE At("diff", 0, 0, 0, 0)

Goto(q) == pc' = q.pc /\ k' = q.k /\ l' = q.l /\ h' = q.h /\ ix' = q.ix

SetState(s) ==
    xi' = s.xi /\ Lambda' = s.Lambda /\ Gamma' = s.Gamma /\ Omega' = s.Omega /\ beta' = s.beta

\* the values a read of b[kk] may yield: past the end of b, any value
ReadB(kk) == IF kk <= Len(inp.b) THEN {inp.b[kk]} ELSE GarbageVals

\* the vectors a read of b[0..K-1] may yield
ReadBVec ==
    { Tup([kk \in 1..K |-> IF kk <= Len(inp.b) THEN inp.b[kk] ELSE g[kk]]) :
        g \in [1..K -> GarbageVals] }

\* lines 294-304: pre-computation, init_params, the locals of the main loop
Start ==
    /\ pc = "start"
    /\ r' = precompute_r(inp.X)
    /\ p' = precompute_p(inp.A)
    /\ SetState(init_params(inp))
    /\ hist' = <<init_params(inp)>>
    /\ dual_objfns' = <<>>
    /\ i' = 0
    /\ pc' = "loop"
    /\ UNCHANGED <<inp, old_xi, old_beta, xi_diff2, beta_diff2, k, l, h, ix, eps, result, order, met>>

\* i < max_iter: the snapshots, then the first update of the sweep
BeginIter ==
    /\ pc = "loop"
    /\ i < inp.max_iter
    /\ old_xi' = xi
    /\ old_beta' = beta
    /\ order' = <<>>
    /\ Goto(EnterXi)
    /\ UNCHANGED <<inp, r, p, xi, Lambda, Gamma, Omega, beta, i, xi_diff2, beta_diff2,
                   dual_objfns, eps, result, hist, met>>

\* i >= max_iter: the loop ends
LoopExit ==
    /\ pc = "loop"
    /\ i >= inp.max_iter
    /\ pc' = "save"
    /\ UNCHANGED <<inp, r, p, xi, Lambda, Gamma, Omega, beta, i, old_xi, old_beta,
                   xi_diff2, beta_diff2, dual_objfns, k, l, h, ix, eps, result, order, hist, met>>

\* update_xi_beta, the body for one k
UpdateXi ==
    /\ pc = "xi"
    /\ \E b_k \in ReadB(k) :
         LET e == XiEps(inp, p, St, k, b_k)
         IN  /\ eps' = e
             /\ SetState(XiApply(inp, St, k, e))
    /\ order' = Append(order, <<"xi", k, 0>>)
    /\ Goto(AfterXi)
    /\ UNCHANGED <<inp, r, p, i, old_xi, old_beta, xi_diff2, beta_diff2, dual_objfns,
                   result, hist, met>>

\* update_Lambda_beta, the body for one (l, i)
UpdateLambda ==
    /\ pc = "lambda"
    /\ LET e == LambdaEps(inp, r, St, l, ix)
       IN  /\ eps' = e
           /\ SetState(LambdaApply(inp, St, l, ix, e))
    /\ order' = Append(order, <<"Lambda", l, ix>>)
    /\ Goto(AfterLambda)
    /\ UNCHANGED <<inp, r, p, i, old_xi, old_beta, xi_diff2, beta_diff2, dual_objfns,
                   result, hist, met>>

\* update_Gamma_Omega_beta, the body for one (h, i)
UpdateGamma ==
    /\ pc = "gamma"
    /\ LET e == GammaEps(inp, r, St, h, ix)
       IN  /\ eps' = e
           /\ SetState(GammaApply(inp, St, h, ix, e))
    /\ order' = Append(order, <<"Gamma", h, ix>>)
    /\ Goto(AfterGamma)
    /\ UNCHANGED <<inp, r, p, i, old_xi, old_beta, xi_diff2, beta_diff2, dual_objfns,
                   result, hist, met>>

\* lines 315-318: xi_diff and beta_diff
Diff ==
    /\ pc = "diff"
    /\ xi_diff2' = IF K > 0 THEN SquaredDiff(xi, old_xi) ELSE Zero
    /\ beta_diff2' = SquaredDiff(beta, old_beta)
    /\ hist' = Append(hist, St)
    /\ met' = Append(met, Converged(xi_diff2', beta_diff2', inp.tol))
    /\ pc' = IF Reports(inp, i) THEN "report" ELSE "test"
    /\ UNCHANGED <<inp, r, p, xi, Lambda, Gamma, Omega, beta, i, old_xi, old_beta,
                   dual_objfns, k, l, h, ix, eps, result, order>>

\* faulty variant of Report: the evaluator builds A' * xi in beta
Report_WritesBeta ==
    /\ pc = "report"
    /\ \E b0 \in ReadBVec : dual_objfns' = Append(dual_objfns, dual_objfn(inp, b0, St))
    /\ beta' = IF K > 0 THEN TransposeTimes(inp.A, xi, Cols(inp.X)) ELSE ZeroVec(Cols(inp.X))
    /\ pc' = "test"
    /\ UNCHANGED <<inp, r, p, xi, Lambda, Gamma, Omega, i, old_xi, old_beta,
                   xi_diff2, beta_diff2, k, l, h, ix, eps, result, order, hist, met>>

\* lines 321-329: the dual objective is computed and recorded
Report ==
    /\ pc = "report"
    /\ \E b0 \in ReadBVec : dual_objfns' = Append(dual_objfns, dual_objfn(inp, b0, St))
    /\ pc' = "test"
    /\ UNCHANGED <<inp, r, p, xi, Lambda, Gamma, Omega, beta, i, old_xi, old_beta,
                   xi_diff2, beta_diff2, k, l, h, ix, eps, result, order, hist, met>>

\* faulty variant of Break: the loop counter is incremented before the loop is left
Break_AfterIncrement ==
    /\ pc = "test"
    /\ Converged(xi_diff2, beta_diff2, inp.tol)
    /\ i' = i + 1
    /\ pc' = "save"
    /\ UNCHANGED <<inp, r, p, xi, Lambda, Gamma, Omega, beta, old_xi, old_beta,
                   xi_diff2, beta_diff2, dual_objfns, k, l, h, ix, eps, result, order, hist, met>>

\* lines 332-333: the tolerance is met, break
Break ==
    /\ pc = "test"
    /\ Converged(xi_diff2, beta_diff2, inp.tol)
    /\ pc' = "save"
    /\ UNCHANGED <<inp, r, p, xi, Lambda, Gamma, Omega, beta, i, old_xi, old_beta,
                   xi_diff2, beta_diff2, dual_objfns, k, l, h, ix, eps, result, order, hist, met>>

\* the tolerance is not met, i++
Continue ==
    /\ pc = "test"
    /\ ~Converged(xi_diff2, beta_diff2, inp.tol)
    /\ i' = i + 1
    /\ pc' = "loop"
    /\ UNCHANGED <<inp, r, p, xi, Lambda, Gamma, Omega, beta, old_xi, old_beta,
                   xi_diff2, beta_diff2, dual_objfns, k, l, h, ix, eps, result, order, hist, met>>

\* lines 337-343: the result is saved
Save ==
    /\ pc = "save"
    /\ result' = Result(St, i, dual_objfns)
    /\ pc' = "done"
    /\ UNCHANGED <<inp, r, p, xi, Lambda, Gamma, Omega, beta, i, old_xi, old_beta,
                   xi_diff2, beta_diff2, dual_objfns, k, l, h, ix, eps, order, hist, met>>

\* a read of b past its end, in a build that keeps the library's index and
\* size assertions: the process is aborted
Abort ==
    /\ \/ pc = "xi" /\ k > Len(inp.b)
       \/ pc = "report" /\ Len(inp.b) # K
    /\ pc' = "abort"
    /\ UNCHANGED <<inp, r, p, xi, Lambda, Gamma, Omega, beta, i, old_xi, old_beta,
                   xi_diff2, beta_diff2, dual_objfns, k, l, h, ix, eps, result, order, hist, met>>

Next ==
    \/ Start
    \/ BeginIter
    \/ LoopExit
    \/ UpdateXi
    \/ UpdateLambda
    \/ UpdateGamma
    \/ Diff
    \/ Report
    \/ Break
    \/ Continue
    \/ Save
    \/ Abort

Spec == Init /\ [][Next]_vars

(***************************************************************************)
(* Properties.                                                             *)
(***************************************************************************)
Initialized == pc # "start"

\* every Tau(h, i) >= 0
TauNonneg == \A a \in 1..H : \A c \in 1..n : Leq(Zero, inp.Tau[a][c])

\* a coordinate update has run in the current sweep; the latest one
Updated == Initialized /\ Len(order) > 0

LastUpdate == order[Len(order)]

\* the latest coordinate update was one of Gamma/Omega, at (a, c)
LastGamma(a, c) == Updated /\ LastUpdate = <<"Gamma", a, c>>

LastLambda(a, c) == Updated /\ LastUpdate = <<"Lambda", a, c>>

LastXi(a) == Updated /\ LastUpdate = <<"xi", a, 0>>

BoxFeasible ==
    /\ \A a \in 1..K : Leq(Zero, xi[a])
    /\ \A a \in 1..L : \A c \in 1..n : Leq(Zero, Lambda[a][c]) /\ Leq(Lambda[a][c], One)
    /\ \A a \in 1..H : \A c \in 1..n :
         /\ Leq(Zero, Gamma[a][c]) /\ Leq(Gamma[a][c], inp.Tau[a][c])
         /\ Leq(Zero, Omega[a][c])

\* C1. Box feasibility: when every Tau(h, i) >= 0, in the state after
\* initialization and after every single coordinate update, every xi[k] >= 0,
\* every Lambda(l, i) is in [0, 1], every Gamma(h, i) is in [0, Tau(h, i)] and
\* every Omega(h, i) >= 0.
C1_BoxFeasibility == (Initialized /\ TauNonneg) => BoxFeasible

\* C1 witness: all Tau >= 0, and a step of each family was clipped at a bound:
\* a Gamma raised to its finite Tau, a Lambda at 0 or 1, a xi at 0
C1_Witness ==
    /\ TauNonneg /\ ShapesOK(inp)
    /\ pc = "diff"
    /\ \E a \in 1..H : \E c \in 1..n :
         /\ ~IsInf(inp.Tau[a][c]) /\ Gamma[a][c] = inp.Tau[a][c]
         /\ Less(hist[Len(hist)].Gamma[a][c], Gamma[a][c])
    /\ \E a \in 1..L : \E c \in 1..n : Lambda[a][c] \in {Zero, One}
    /\ \E a \in 1..K : xi[a] = Zero

\* C2. Primal consistency: after initialization and after every single
\* coordinate update, beta equals get_primal(xi, Lambda, Gamma) of the current
\* dual variables.
C2_PrimalConsistency == Initialized => beta = get_primal(inp, xi, Lambda, Gamma)

\* C2 witness: a sweep in which all three families are present has run and
\* has moved beta
C2_Witness ==
    /\ pc = "diff" /\ K > 0 /\ L > 0 /\ H > 0 /\ ShapesOK(inp) /\ TauNonneg
    /\ beta # old_beta
    /\ eps # Zero

\* C9 as stated (for inputs with every Tau >= 0): after the update of (h, i),
\* Omega(h, i) is
\* max(0, Gamma(h, i) + eps - Tau(h, i)) with Gamma(h, i) the value after the
\* step and eps the step.
C9_OmegaFromUpdatedGammaPlusEps ==
    \A a \in 1..H : \A c \in 1..n :
        (TauNonneg /\ LastGamma(a, c)) => Omega[a][c] = Max(Zero, Sub(Add(Gamma[a][c], eps), inp.Tau[a][c]))

\* C9 amended: after the update of (h, i), Omega(h, i) is
\* max(0, Gamma(h, i) - Tau(h, i)) with Gamma(h, i) the value after the step
\* (the value before the step plus eps); it is 0 when Tau(h, i) is +Inf.
C9_OmegaFromUpdatedGamma ==
    \A a \in 1..H : \A c \in 1..n :
        LastGamma(a, c) =>
            /\ Omega[a][c] = Max(Zero, Sub(Gamma[a][c], inp.Tau[a][c]))
            /\ IsInf(inp.Tau[a][c]) => Omega[a][c] = Zero

\* C9 witness: a Gamma step with a finite Tau and eps > 0 after which
\* Gamma + eps exceeds Tau, where the two readings of the formula differ
C9_Witness ==
    \E a \in 1..H : \E c \in 1..n :
        /\ TauNonneg /\ ShapesOK(inp)
        /\ LastGamma(a, c)
        /\ ~IsInf(inp.Tau[a][c])
        /\ Less(Zero, eps)
        /\ Less(inp.Tau[a][c], Add(Gamma[a][c], eps))

Sweeps == Len(hist) - 1

NeverMet == \A j \in 1..Len(met) : ~met[j]

\* C3. The driver performs at most max_iter sweeps; it stops at the first
\* iteration whose xi_diff and beta_diff are both below tol, and then niter is
\* that iteration's index, which is below max_iter; if no iteration meets the
\* tolerance it stops after max_iter sweeps with niter = max_iter; niter equals
\* max_iter if and only if the tolerance was never met.
C3_Termination ==
    Initialized =>
        /\ i <= inp.max_iter
        /\ Sweeps <= inp.max_iter
        /\ \A j \in 1..(Len(met) - 1) : ~met[j]
        /\ pc \in {"loop", "xi", "lambda", "gamma", "diff"} => NeverMet
        /\ pc = "done" =>
             /\ result.niter = inp.max_iter <=> NeverMet
             /\ NeverMet => Sweeps = inp.max_iter
             /\ ~NeverMet => result.niter = Sweeps - 1 /\ result.niter < inp.max_iter

\* C3 witness: the tolerance was first met in the last sweep max_iter allows,
\* after an earlier sweep that did not meet it
C3_Witness ==
    /\ pc = "done" /\ ShapesOK(inp) /\ TauNonneg
    /\ ~NeverMet
    /\ Len(met) = inp.max_iter
    /\ inp.max_iter > 1

\* the reference inputs for H = 0: a Gamma/Omega family that is present with
\* S = 0, so that it contributes nothing to beta
ZeroSRefs ==
    { [S |-> << ZeroVec(n) >>, T |-> << Tup([c \in 1..n |-> One]) >>,
       Tau |-> << Tup([c \in 1..n |-> tau0]) >>] : tau0 \in {Inf, Half} }

Betas(hs) == Tup([j \in 1..Len(hs) |-> hs[j].beta])

SampleState(j) == hist[ReportEvery * (j - 1) + 2]

\* C5 as stated: the recorded dual objective values are non-decreasing.
C5_NonDecreasing ==
    ShapesOK(inp) =>
        \A j \in 1..(Len(dual_objfns) - 1) : Leq(dual_objfns[j], dual_objfns[j + 1])

\* C5 amended: for inputs of matching shapes, the recorded dual objective
\* values are non-increasing from one sample to the next, and two consecutive
\* samples are equal when the primal-dual state is the same at both.
C5_NonIncreasing ==
    ShapesOK(inp) =>
        \A j \in 1..(Len(dual_objfns) - 1) :
            /\ Leq(dual_objfns[j + 1], dual_objfns[j])
            /\ SampleState(j) = SampleState(j + 1) => dual_objfns[j] = dual_objfns[j + 1]

\* C5 witness: a second sample strictly below the first
C5_Witness ==
    /\ ShapesOK(inp) /\ TauNonneg
    /\ Len(dual_objfns) >= 2
    /\ Less(dual_objfns[2], dual_objfns[1])

\* C6 as stated: with b shorter than A has rows, the solve is rejected before
\* pre-computation, initialization or any sweep, and no primal or dual
\* variable is produced.
C6_InvalidShapeRejected ==
    ~ShapesOK(inp) =>
        /\ pc = "start"
        /\ xi = <<>> /\ beta = <<>>
        /\ result = NoResult

\* the sampled iterations among the sweeps completed so far
SampledIters == {j \in 0..(Sweeps - 1) : j % ReportEvery = 0}

\* C7. dual_objfn changes no primal or dual variable, and a solve with verbose
\* and the solve without it on the same inputs go through the same primal-dual
\* states and return the same beta, xi, Lambda, Gamma, Omega and niter; with
\* verbose, dual_objfns has one entry per executed iteration i with
\* i mod 10 = 0, and without it none.
C7_EvaluatorReadOnly ==
    (Initialized /\ ShapesOK(inp)) =>
        /\ pc = "test" => St = hist[Len(hist)]
        /\ pc \in {"test", "save", "done"} =>
             Len(dual_objfns) = IF inp.verbose THEN Cardinality(SampledIters) ELSE 0
        /\ pc = "done" =>
             LET o == l3solver_internal([inp EXCEPT !.verbose = ~inp.verbose])
             IN  /\ o.hist = hist
                 /\ [o.result EXCEPT !.dual_objfns = <<>>] = [result EXCEPT !.dual_objfns = <<>>]
                 /\ result.dual_objfns = dual_objfns

\* C7 witness: a verbose solve with constraints of both kinds present has
\* ended with two recorded samples that differ
C7_Witness ==
    /\ pc = "done" /\ ShapesOK(inp) /\ TauNonneg /\ inp.verbose
    /\ K > 0 /\ L > 0
    /\ Len(result.dual_objfns) = 2
    /\ result.dual_objfns[1] # result.dual_objfns[2]
    /\ Sweeps > ReportEvery

\* the order of the coordinate updates of one sweep
ExpectedOrder ==
    [a \in 1..K |-> <<"xi", a, 0>>]
    \o [q \in 1..(L * n) |-> <<"Lambda", ((q - 1) \div n) + 1, ((q - 1) % n) + 1>>]
    \o [q \in 1..(H * n) |-> <<"Gamma", ((q - 1) \div n) + 1, ((q - 1) % n) + 1>>]

InSweep == pc \in {"xi", "lambda", "gamma", "diff"}

\* after the update of xi[a] the coordinate is at its minimum given the
\* current beta: A.row(a).beta + b[a] is 0, or positive with xi[a] = 0
XiSettled(a) ==
    LET g == Add(Dot(inp.A[a], beta), inp.b[a])
    IN  g = Zero \/ (xi[a] = Zero /\ Less(Zero, g))

\* after the update of Lambda(a, c): V + u * X.row(c).beta is 0, or positive
\* with Lambda = 1, or negative with Lambda = 0
LambdaSettled(a, c) ==
    LET g == Add(inp.V[a][c], Mul(inp.U[a][c], Dot(inp.X[c], beta)))
    IN  \/ g = Zero
        \/ Lambda[a][c] = One /\ Less(Zero, g)
        \/ Lambda[a][c] = Zero /\ Less(g, Zero)

\* after the update of Gamma(a, c), for Tau(a, c) >= 0:
\* T + s * X.row(c).beta - Gamma is 0, or positive with Gamma = Tau, or negative
\* with Gamma = 0
GammaSettled(a, c) ==
    LET g == Sub(Add(inp.T[a][c], Mul(inp.S[a][c], Dot(inp.X[c], beta))), Gamma[a][c])
    IN  \/ g = Zero
        \/ Gamma[a][c] = inp.Tau[a][c] /\ Less(Zero, g)
        \/ Gamma[a][c] = Zero /\ Less(g, Zero)

\* C8. In every iteration the coordinates are updated in the order xi
\* (k ascending), Lambda (l outer, i inner), Gamma/Omega (h outer, i inner); the
\* snapshots old_xi and old_beta are the values before the first update of the
\* iteration; and each update takes its step from the current beta: right
\* after it, its coordinate is at its minimum over its box given the beta that
\* all earlier updates have produced.
C8_GaussSeidelOrder ==
    (InSweep /\ ShapesOK(inp)) =>
        /\ Len(order) <= Len(ExpectedOrder)
        /\ order = SubSeq(ExpectedOrder, 1, Len(order))
        /\ pc = "diff" => order = ExpectedOrder
        /\ old_xi = hist[Len(hist)].xi /\ old_beta = hist[Len(hist)].beta
        /\ \A a \in 1..K : LastXi(a) => XiSettled(a)
        /\ \A a \in 1..L : \A c \in 1..n : LastLambda(a, c) => LambdaSettled(a, c)
        /\ \A a \in 1..H : \A c \in 1..n :
             (LastGamma(a, c) /\ Leq(Zero, inp.Tau[a][c])) => GammaSettled(a, c)

\* C8 witness: a sweep over two constraints of xi, a 2 x 2 Lambda and a 2 x 2
\* Gamma has ended, in an iteration after the first
C8_Witness ==
    /\ pc = "diff" /\ ShapesOK(inp) /\ TauNonneg
    /\ K = 2 /\ L = 2 /\ H = 2 /\ n = 2
    /\ i > 0
    /\ beta # old_beta

====
